---- MODULE Spec2Model ----
(***************************************************************************)
(* Model of detectree2/models/post_processing.py: the scheduler            *)
(* project_to_geojson, the batch worker project_files and the per-tile     *)
(* crown processor process_crowns.                                         *)
(*                                                                         *)
(* File names are sequences of tokens ("." is a token of its own), so that *)
(* Path.suffix, Path.with_suffix and str.replace are computed, not assumed.*)
(* Geographic coordinates are kept doubled (2x, 2y) so that the pixel      *)
(* centre offset of rasterio.transform.xy stays an integer.                *)
(***************************************************************************)
EXTENDS Integers, Sequences, FiniteSets, TLC

VARIABLES
    listing,          \* os.listdir(pred_folder): names in directory order
    fs,               \* per listed name: state of the file and its companions
    multi_class,      \* argument multi_class
    max_workers_arg,  \* argument max_workers
    pc,               \* position of project_to_geojson
    entries,          \* local entries (line 31)
    chunk_filenames,  \* local chunk_filenames (lines 40-42)
    pool_size,        \* max_workers of the ThreadPoolExecutor (line 44); 0 = no pool
    future,           \* local future (line 45): one record per submitted task
    seq_idx,          \* files already handled by the sequential call (line 35)
    collected,        \* futures whose result() was taken (lines 48-52)
    outputs,          \* output folder: name -> geofile written there
    stdout,           \* lines printed
    outcome,          \* how project_to_geojson ended: "none", "returned", "raised"
    crowns,           \* process_crowns: the crowns iterated so far
    cp_multi_class,   \* process_crowns: argument multi_class
    cp_confidence,    \* process_crowns: argument confidence
    cp_shift,         \* process_crowns: argument shift
    cp_transform,     \* process_crowns: argument raster_transform
    geofile_features, \* process_crowns: local geofile_features
    cp_pc             \* process_crowns: "loop", "returned", "raised"

vars == <<listing, fs, multi_class, max_workers_arg, pc, entries, chunk_filenames,
          pool_size, future, seq_idx, collected, outputs, stdout, outcome,
          crowns, cp_multi_class, cp_confidence, cp_shift, cp_transform,
          geofile_features, cp_pc>>

sched_vars == <<listing, fs, multi_class, max_workers_arg, pc, entries, chunk_filenames,
                pool_size, future, seq_idx, collected, outputs, stdout, outcome>>

crown_vars == <<crowns, cp_multi_class, cp_confidence, cp_shift, cp_transform,
          geofile_features, cp_pc>>

\* ---------------------------------------------------------------- bounds
MaxFiles == 3
MaxWorkers == 3
MaxCrowns == 2

\* Python's None; an optional value v is <<v>>
None == <<>>

\* ------------------------------------------------------------ sequences
RECURSIVE SeqToSet(_)
SeqToSet(s) == IF s = <<>> THEN {} ELSE {Head(s)} \cup SeqToSet(Tail(s))

RECURSIVE Flatten(_)
Flatten(ss) == IF ss = <<>> THEN <<>> ELSE Head(ss) \o Flatten(Tail(ss))

\* the worker count left unclamped
Min_first(a, b) == a

Min(a, b) == IF a < b THEN a ELSE b

\* ---------------------------------------------------------------- paths
\* index of the last "." token of a name, 0 when there is none (str.rfind)
RECURSIVE LastDot(_)
LastDot(name) ==
    IF name = <<>> THEN 0
    ELSE IF name[Len(name)] = "." THEN Len(name)
         ELSE LastDot(SubSeq(name, 1, Len(name) - 1))

\* pathlib: Path(name).suffix -- the last dot and what follows it, unless the
\* dot is the first or the last character of the name
Suffix(name) ==
    LET i == LastDot(name)
    IN IF i > 1 /\ i < Len(name) THEN SubSeq(name, i, Len(name)) ELSE <<>>

\* pathlib: Path(name).with_suffix(suffix).name
WithSuffix(name, suffix) ==
    SubSeq(name, 1, Len(name) - Len(Suffix(name))) \o suffix

\* str.replace(old, "") for a one-token old
RECURSIVE RemoveToken(_, _)
RemoveToken(name, old) ==
    IF name = <<>> THEN <<>>
    ELSE IF Head(name) = old THEN RemoveToken(Tail(name), old)
         ELSE <<Head(name)>> \o RemoveToken(Tail(name), old)

JsonSuffix == <<".", "json">>
TifSuffix == <<".", "tif">>
GeojsonSuffix == <<".", "geojson">>

\* line 31: the entries of pred_folder whose suffix is ".json", in listing order
Enumerate(dir) == SelectSeq(dir, LAMBDA file : Suffix(file) = JsonSuffix)

\* line 67: name of the companion raster tile of a prediction file
TifName(filename) == WithSuffix(RemoveToken(filename, "Prediction_"), TifSuffix)

\* the suffix taken from the first dot of the name instead of the last
OutputGeoFile_firstdot(filename) ==
    LET i == CHOOSE k \in 1..Len(filename) :
                 filename[k] = "." /\ \A j \in 1..(k - 1) : filename[j] # "."
    IN SubSeq(filename, 1, i - 1) \o GeojsonSuffix

\* line 94: name of the output file of a prediction file
OutputGeoFile(filename) == WithSuffix(filename, GeojsonSuffix)

\* str.replace(".json", ".geojson") on a str (lines 70 and 127 intend it)
RECURSIVE StrReplaceJson(_)
StrReplaceJson(name) ==
    IF Len(name) < 2 THEN name
    ELSE IF SubSeq(name, 1, 2) = JsonSuffix
         THEN GeojsonSuffix \o StrReplaceJson(SubSeq(name, 3, Len(name)))
         ELSE <<Head(name)>> \o StrReplaceJson(Tail(name))

\* ------------------------------------------------------- python values
\* polygon_from_mask returns the int 0 or a flat list [x1, y1, x2, y2, ...]
PyInt(n) == [type |-> "int", val |-> <<n>>]
PyList(l) == [type |-> "list", val |-> l]

\* the sentinel test written against the empty list instead of 0
EqualsZero_emptylist(v) == v.type = "list" /\ v.val = <<>>

\* crown_coords == 0 (line 116): a list never equals 0
EqualsZero(v) == v.type = "int" /\ v.val = <<0>>

\* Python truth value of  not v  for the values is_edge_crown can return
PyNot(v) == v = None \/ v = <<FALSE>>

\* ------------------------------------------------ masks and projection
\* pycocotools mask_util.decode: the runs of counts, alternately 0s and 1s
\* starting with 0s, laid out column-major over size = <<h, w>>
RECURSIVE ExpandRuns(_, _)
ExpandRuns(counts, bit) ==
    IF counts = <<>> THEN <<>>
    ELSE [k \in 1..Head(counts) |-> bit] \o ExpandRuns(Tail(counts), 1 - bit)

MaskDecode(crown) == [size |-> crown.size, bits |-> ExpandRuns(crown.counts, 0)]

\* bit of pixel (col, row) of a decoded mask
MaskBit(mask, col, row) == mask.bits[col * mask.size[1] + row + 1]

\* the pixels of an h x w bitmap in contour order: the top row left to right,
\* then the rows below it right to left
ContourOrder(size) ==
    LET h == size[1]
        w == size[2]
        top == [k \in 1..w |-> <<k - 1, 0>>]
        rest == [k \in 1..(w * (h - 1)) |->
                    <<w - 1 - ((k - 1) % w), 1 + ((k - 1) \div w)>>]
    IN top \o rest

RECURSIVE FlatPairs(_)
FlatPairs(ps) == IF ps = <<>> THEN <<>> ELSE Head(ps) \o FlatPairs(Tail(ps))

\* outputs.polygon_from_mask: the outer contour as a flat list of pixel
\* coordinates, or 0 when the mask has no contour of at least 3 points
polygon_from_mask(mask) ==
    LET ring == SelectSeq(ContourOrder(mask.size),
                          LAMBDA p : MaskBit(mask, p[1], p[2]) = 1)
    IN IF Len(ring) < 3 THEN PyInt(0) ELSE PyList(FlatPairs(ring))

\* line 119: np.array(crown_coords).reshape(-1, 2)
Reshape2(flat) == [k \in 1..(Len(flat) \div 2) |-> <<flat[2 * k - 1], flat[2 * k]>>]

\* rasterio.transform.xy(transform, rows, cols) with the default offset
\* "center", and zip (lines 120-124).  A transform is [a, b, c2, d, e, f2]
\* with c2 = 2c and f2 = 2f; the result is <<2x, 2y>> per point.
TransformXY(t, coords_array) ==
    [k \in 1..Len(coords_array) |->
        LET col == coords_array[k][1]
            row == coords_array[k][2]
        IN <<t.a * (2 * col + 1) + t.b * (2 * row + 1) + t.c2,
             t.d * (2 * col + 1) + t.e * (2 * row + 1) + t.f2>>]

\* outputs.box_filter(filename_geo, shift): the tile's extent shrunk by shift
\* on each side, doubled like the coordinates
box_filter(extent, shift) ==
    [minx |-> extent.minx + 2 * shift, miny |-> extent.miny + 2 * shift,
     maxx |-> extent.maxx - 2 * shift, maxy |-> extent.maxy - 2 * shift]

\* lines 158-168: the body is  pass , so the call returns None for every input
is_edge_crown(crown_coords, bbox) == None

\* ------------------------------------------------------- process_crowns
\* the single-class feature appended in both branches of line 132
Feature_nocategory(multi, confidence_score, category, moved_coords) ==
    [type |-> "Feature",
     properties |-> [Confidence_score |-> confidence_score],
     geometry |-> [type |-> "Polygon", coordinates |-> <<moved_coords>>]]

Feature(multi, confidence_score, category, moved_coords) ==
    IF multi
    THEN [type |-> "Feature",
          properties |-> [Confidence_score |-> confidence_score, category |-> category],
          geometry |-> [type |-> "Polygon", coordinates |-> <<moved_coords>>]]
    ELSE [type |-> "Feature",
          properties |-> [Confidence_score |-> confidence_score],
          geometry |-> [type |-> "Polygon", coordinates |-> <<moved_coords>>]]

\* the comparison of line 109 written  <=  instead of  <
ConfidenceSkips_inclusive(confidence, confidence_score) ==
    confidence # None /\ confidence_score <= confidence[1]

\* line 109: the confidence filter skips the instance
ConfidenceSkips(confidence, confidence_score) ==
    confidence # None /\ confidence_score < confidence[1]

\* the feature inserted at the head of the list
Emit_front(feats, feature) == <<feature>> \o feats

\* geofile_features.append(feature) (lines 133 and 145)
Emit(feats, feature) == Append(feats, feature)

\* One iteration of the loop of process_crowns (lines 102-154) on crown_data,
\* with geofile_features = feats before it.  filename is [path, name]: path
\* says whether the caller passed a pathlib.Path (project_files does) or a str.
\* Result: raised is None or <<exception>>; features is the list after it.
process_crown(crown_data, multi, raster_transform, filename, extent, shift, confidence, feats) ==
    IF multi /\ crown_data.category_id = None
    THEN [raised |-> <<"KeyError">>, features |-> feats]
    ELSE
    LET category == IF multi THEN crown_data.category_id[1] ELSE 0
        crown == crown_data.segmentation
        confidence_score == crown_data.score
        crown_coords == polygon_from_mask(MaskDecode(crown))
        moved_coords == TransformXY(raster_transform, Reshape2(crown_coords.val))
    IN IF ConfidenceSkips(confidence, confidence_score)
       THEN [raised |-> None, features |-> feats]
       ELSE IF EqualsZero(crown_coords)
       THEN [raised |-> None, features |-> feats]
       ELSE IF shift # None /\ filename.path
       THEN [raised |-> <<"TypeError">>, features |-> feats]
       ELSE IF shift # None
               /\ PyNot(is_edge_crown(moved_coords,
                                      box_filter(extent, shift[1])))
       THEN [raised |-> None, features |-> feats]
       ELSE [raised |-> None,
             features |-> Emit(feats, Feature(multi, confidence_score, category, moved_coords))]

\* process_crowns (lines 99-156): the loop over crowns, from feats
RECURSIVE process_crowns_from(_, _, _, _, _, _, _, _)
process_crowns_from(cs, multi, raster_transform, filename, extent, shift, confidence, feats) ==
    IF cs = <<>> THEN [raised |-> None, features |-> feats]
    ELSE LET r == process_crown(Head(cs), multi, raster_transform, filename,
                                extent, shift, confidence, feats)
         IN IF r.raised # None THEN r
            ELSE process_crowns_from(Tail(cs), multi, raster_transform, filename,
                                     extent, shift, confidence, r.features)

process_crowns(cs, multi, raster_transform, filename, extent, shift, confidence) ==
    process_crowns_from(cs, multi, raster_transform, filename, extent, shift, confidence, <<>>)

\* ------------------------------------------------------------ fixtures
\* 2 x 2 masks: no foreground pixel; three foreground pixels
CrownMasks == {[size |-> <<2, 2>>, counts |-> <<4>>],
               [size |-> <<2, 2>>, counts |-> <<1, 3>>]}

\* scores and thresholds in tenths
Scores == {4, 5, 6}
Thresholds == {None, <<5>>}
Shifts == {None, <<0>>, <<1>>}
CategoryIds == {None, <<1>>, <<2>>}

\* the identity transform, and the identity moved by half a pixel up and left
Transforms == {[a |-> 1, b |-> 0, c2 |-> 0, d |-> 0, e |-> 1, f2 |-> 0],
               [a |-> 1, b |-> 0, c2 |-> -1, d |-> 0, e |-> 1, f2 |-> -1]}

\* extent of a 2 x 2 tile at the origin (doubled)
TileExtent == [minx |-> 0, miny |-> 0, maxx |-> 4, maxy |-> 4]

CrownData == [segmentation : CrownMasks, score : Scores, category_id : CategoryIds]

CrownFile == [path |-> FALSE, name |-> <<"Prediction_", "a", ".", "json">>]

SchedIdle ==
    /\ listing = <<>> /\ fs = <<>> /\ multi_class = FALSE /\ max_workers_arg = 1
    /\ pc = "idle" /\ entries = <<>> /\ chunk_filenames = <<>> /\ pool_size = 0
    /\ future = <<>> /\ seq_idx = 0 /\ collected = {} /\ outputs = <<>>
    /\ stdout = <<>> /\ outcome = "none"

CrownsIdle ==
    /\ crowns = <<>> /\ cp_multi_class = FALSE /\ cp_confidence = None
    /\ cp_shift = None /\ cp_transform = CHOOSE t \in Transforms : t.c2 = 0
    /\ geofile_features = <<>> /\ cp_pc = "idle"

\* -------------------------------------------------------- project_files
\* what the folders hold for a listed prediction file
Kinds == {"ok", "no_tile", "malformed"}

\* content of a well-formed prediction file: two instances, one at score 6
\* and one at score 4 (tenths)
PredictionContent(filename) ==
    <<[segmentation |-> [size |-> <<2, 2>>, counts |-> <<1, 3>>], score |-> 6,
       category_id |-> <<1>>],
      [segmentation |-> [size |-> <<2, 2>>, counts |-> <<1, 3>>], score |-> 4,
       category_id |-> <<2>>]>>

\* data.transform of a tile (line 73)
TileTransform(tifname) == [a |-> 1, b |-> 0, c2 |-> 0, d |-> 0, e |-> 1, f2 |-> 0]

\* outputs.filename_geoinfo(filename_geo): the EPSG id of the tile
filename_geoinfo(filename_geo) ==
    IF "b" \in SeqToSet(filename_geo) THEN 32650 ELSE 4326

\* pathlib: Path.replace(target) renames the file and takes exactly one
\* argument; any other number of arguments is a TypeError
PathReplace(path, args) ==
    IF Len(args) # 1 THEN [raised |-> <<"TypeError">>, value |-> path]
    ELSE [raised |-> None, value |-> args[1]]

\* lines 75-84 and 92
GeoFile(epsg, features) ==
    [type |-> "FeatureCollection",
     crs |-> [type |-> "name", properties |-> [name |-> <<"urn:ogc:def:crs:EPSG::", epsg>>]],
     features |-> features]

NoWrite == [raised |-> None, printed |-> <<>>, written |-> None]

\* the output file opened for writing before the tile is read, so that it is
\* created, with no feature, also when the iteration raises
project_file_openfirst(filename, kind, idx, total, multi, confidence, follow) ==
    [raised |-> IF kind = "no_tile" THEN <<"RasterioIOError">> ELSE <<"TypeError">>,
     printed |-> <<>>,
     written |-> <<[name |-> OutputGeoFile(filename),
                    geofile |-> GeoFile(filename_geoinfo(TifName(filename)), <<>>)]>>]

\* One iteration of the loop of project_files (lines 63-97) on filename, the
\* idx-th of total files; kind says what the folders hold for it.
\* Result: raised is None or <<exception>>; printed are the lines printed;
\* written is None or <<[name, geofile]>>, the output file written.
project_file(filename, kind, idx, total, multi, confidence, follow) ==
    LET printed == IF idx % 50 = 0 /\ follow
                   THEN <<[kind |-> "progress", idx |-> idx, total |-> total]>>
                   ELSE <<>>
        tifpath == TifName(filename)
        filename_geo == PathReplace(tifpath, <<TifSuffix, GeojsonSuffix>>)
        epsg == filename_geoinfo(filename_geo.value)
        raster_transform == TileTransform(tifpath)
        datajson == PredictionContent(filename)
        crowns_result == process_crowns(datajson, multi, raster_transform,
                                        [path |-> TRUE, name |-> filename],
                                        [minx |-> 0, miny |-> 0, maxx |-> 4, maxy |-> 4],
                                        None, confidence)
    IN IF kind = "no_tile"
       THEN [NoWrite EXCEPT !.raised = <<"RasterioIOError">>, !.printed = printed]
       ELSE IF filename_geo.raised # None
       THEN [NoWrite EXCEPT !.raised = filename_geo.raised, !.printed = printed]
       ELSE IF kind = "malformed"
       THEN [NoWrite EXCEPT !.raised = <<"JSONDecodeError">>, !.printed = printed]
       ELSE IF crowns_result.raised # None
       THEN [NoWrite EXCEPT !.raised = crowns_result.raised, !.printed = printed]
       ELSE [raised |-> None, printed |-> printed,
             written |-> <<[name |-> OutputGeoFile(filename),
                            geofile |-> GeoFile(epsg, crowns_result.features)]>>]

\* open(output_geo_file, "w") and json.dump (lines 96-97): creates or overwrites
WriteOutput(outs, written) ==
    IF written = None THEN outs
    ELSE [n \in DOMAIN outs \cup {written[1].name} |->
            IF n = written[1].name THEN written[1].geofile ELSE outs[n]]

\* --------------------------------------------------- project_to_geojson
\* lines 40-42: chunk_filenames after the loop over entries from index i
\* (0-based), with n chunks
RECURSIVE RoundRobin(_, _, _, _)
RoundRobin(es, i, n, chunks) ==
    IF i >= Len(es) THEN chunks
    ELSE RoundRobin(es, i + 1, n,
                    [chunks EXCEPT ![(i % n) + 1] = Append(@, es[i + 1])])

\* the chunks built as  [[]] * n : one list shared by every chunk
Partition_aliased(es, n) == [k \in 1..n |-> es]

Partition(es, n) == RoundRobin(es, 0, n, [k \in 1..n |-> <<>>])

\* names a predictions folder may hold
ListNames == {<<"Prediction_", "a", ".", "json">>,
              <<"Prediction_", "a", ".", "b", ".", "json">>,
              <<"Prediction_", "b", ".", "json">>,
              <<"notes", ".", "txt">>}

\* the listings of a folder: up to MaxFiles distinct names, in any order
Listings ==
    {l \in UNION {[1..n -> ListNames] : n \in 0..MaxFiles} :
        \A i, j \in 1..Len(l) : i # j => l[i] # l[j]}

Init ==
    /\ listing \in Listings
    /\ fs \in [{listing[i] : i \in 1..Len(listing)} -> Kinds]
    /\ \A n \in DOMAIN fs : Suffix(n) # JsonSuffix => fs[n] = "ok"
    /\ multi_class \in BOOLEAN
    /\ max_workers_arg \in 1..MaxWorkers
    /\ pc = "start"
    /\ entries = <<>>
    /\ chunk_filenames = <<>>
    /\ pool_size = 0
    /\ future = <<>>
    /\ seq_idx = 0
    /\ collected = {}
    /\ outputs = <<>>
    /\ stdout = <<>>
    /\ outcome = "none"
    /\ CrownsIdle

\* lines 30-35, max_workers == 1: enumerate and enter project_files in the
\* caller's thread
StartSequential ==
    /\ pc = "start"
    /\ max_workers_arg = 1
    /\ entries' = Enumerate(listing)
    /\ stdout' = Append(stdout, [kind |-> "count", total |-> Len(Enumerate(listing))])
    /\ seq_idx' = 0
    /\ pc' = "sequential"
    /\ UNCHANGED <<listing, fs, multi_class, max_workers_arg, chunk_filenames,
                   pool_size, future, collected, outputs, outcome>>
    /\ UNCHANGED crown_vars

\* line 35: one iteration of project_files(entries, ..., follow=True); an
\* exception leaves project_to_geojson
SequentialFile ==
    /\ pc = "sequential"
    /\ seq_idx < Len(entries)
    /\ LET filename == entries[seq_idx + 1]
           r == project_file(filename, fs[filename], seq_idx + 1, Len(entries),
                             multi_class, None, TRUE)
       IN /\ stdout' = stdout \o r.printed
          /\ outputs' = WriteOutput(outputs, r.written)
          /\ IF r.raised # None
             THEN /\ pc' = "done"
                  /\ outcome' = "raised"
                  /\ seq_idx' = seq_idx
             ELSE /\ pc' = pc
                  /\ outcome' = outcome
                  /\ seq_idx' = seq_idx + 1
    /\ UNCHANGED <<listing, fs, multi_class, max_workers_arg, entries, chunk_filenames,
                   pool_size, future, collected>>
    /\ UNCHANGED crown_vars

\* lines 35-36: project_files has handled every file;  return
SequentialReturn ==
    /\ pc = "sequential"
    /\ seq_idx = Len(entries)
    /\ pc' = "done"
    /\ outcome' = "returned"
    /\ UNCHANGED <<listing, fs, multi_class, max_workers_arg, entries, chunk_filenames,
                   pool_size, future, seq_idx, collected, outputs, stdout>>
    /\ UNCHANGED crown_vars

\* line 45: the tasks submitted, one per non-empty chunk, in chunk order
Submit(chunks) ==
    LET nonempty == SelectSeq(chunks, LAMBDA chunk : Len(chunk) > 0)
    IN [k \in 1..Len(nonempty) |->
          [chunk |-> nonempty[k], idx |-> 0, state |-> "pending", exception |-> None]]

\* lines 30-45, max_workers != 1: enumerate, clamp, partition, create the pool
\* and submit.  ThreadPoolExecutor(max_workers=0) raises ValueError.
StartParallel ==
    /\ pc = "start"
    /\ max_workers_arg # 1
    /\ LET es == Enumerate(listing)
           n == Min(max_workers_arg, Len(es))
           chunks == Partition(es, n)
       IN /\ entries' = es
          /\ chunk_filenames' = chunks
          /\ IF n <= 0
             THEN /\ pool_size' = 0
                  /\ future' = <<>>
                  /\ pc' = "done"
                  /\ outcome' = "raised"
             ELSE /\ pool_size' = n
                  /\ future' = Submit(chunks)
                  /\ pc' = "shutdown"
                  /\ outcome' = outcome
    /\ UNCHANGED <<listing, fs, multi_class, max_workers_arg, seq_idx, collected,
                   outputs, stdout>>
    /\ UNCHANGED crown_vars

Running == {k \in 1..Len(future) : future[k].state = "running"}

\* a pool thread takes the oldest queued task; the pool has pool_size threads
TaskStart(k) ==
    /\ pc = "shutdown"
    /\ k \in 1..Len(future)
    /\ future[k].state = "pending"
    /\ \A j \in 1..(k - 1) : future[j].state # "pending"
    /\ Cardinality(Running) < pool_size
    /\ future' = [future EXCEPT ![k].state = "running"]
    /\ UNCHANGED <<listing, fs, multi_class, max_workers_arg, pc, entries,
                   chunk_filenames, pool_size, seq_idx, collected, outputs, stdout,
                   outcome>>
    /\ UNCHANGED crown_vars

\* one iteration of project_files(chunk, ...) in a pool thread; an exception
\* ends the task and is kept in its future; after the last file the task ends
TaskFile(k) ==
    /\ pc = "shutdown"
    /\ k \in 1..Len(future)
    /\ future[k].state = "running"
    /\ future[k].idx < Len(future[k].chunk)
    /\ LET f == future[k]
           filename == f.chunk[f.idx + 1]
           r == project_file(filename, fs[filename], f.idx + 1, Len(f.chunk),
                             multi_class, None, FALSE)
       IN /\ stdout' = stdout \o r.printed
          /\ outputs' = WriteOutput(outputs, r.written)
          /\ future' = [future EXCEPT ![k] =
                IF r.raised # None
                THEN [f EXCEPT !.state = "finished", !.exception = r.raised]
                ELSE IF f.idx + 1 = Len(f.chunk)
                THEN [f EXCEPT !.state = "finished", !.idx = f.idx + 1]
                ELSE [f EXCEPT !.idx = f.idx + 1]]
    /\ UNCHANGED <<listing, fs, multi_class, max_workers_arg, pc, entries,
                   chunk_filenames, pool_size, seq_idx, collected, outcome>>
    /\ UNCHANGED crown_vars

\* a task counted as done as soon as a thread has taken it
Finished_started(k) == future[k].state # "pending"

\* Future.done(): the task has returned or raised
Finished(k) == future[k].state = "finished"

\* line 46: pool.shutdown(wait=True) returns once every task has ended
Shutdown ==
    /\ pc = "shutdown"
    /\ \A k \in 1..Len(future) : Finished(k)
    /\ pc' = "collect"
    /\ UNCHANGED <<listing, fs, multi_class, max_workers_arg, entries, chunk_filenames,
                   pool_size, future, seq_idx, collected, outputs, stdout, outcome>>
    /\ UNCHANGED crown_vars

\* the exception printed both in the handler and after it
Collect_twice(k) ==
    /\ pc = "collect"
    /\ k \in 1..Len(future)
    /\ Finished(k)
    /\ k \notin collected
    /\ collected' = collected \cup {k}
    /\ stdout' = IF future[k].exception # None
                 THEN stdout \o <<[kind |-> "exception", exc |-> future[k].exception[1]],
                                  [kind |-> "exception", exc |-> future[k].exception[1]]>>
                 ELSE stdout
    /\ UNCHANGED <<listing, fs, multi_class, max_workers_arg, pc, entries,
                   chunk_filenames, pool_size, future, seq_idx, outputs, outcome>>
    /\ UNCHANGED crown_vars

\* lines 48-52: as_completed yields a finished future; result() re-raises its
\* exception, which is caught and printed
Collect(k) ==
    /\ pc = "collect"
    /\ k \in 1..Len(future)
    /\ Finished(k)
    /\ k \notin collected
    /\ collected' = collected \cup {k}
    /\ stdout' = IF future[k].exception # None
                 THEN Append(stdout, [kind |-> "exception", exc |-> future[k].exception[1]])
                 ELSE stdout
    /\ UNCHANGED <<listing, fs, multi_class, max_workers_arg, pc, entries,
                   chunk_filenames, pool_size, future, seq_idx, outputs, outcome>>
    /\ UNCHANGED crown_vars

\* the loop of line 48 is exhausted; the function ends
Return ==
    /\ pc = "collect"
    /\ collected = 1..Len(future)
    /\ pc' = "done"
    /\ outcome' = "returned"
    /\ UNCHANGED <<listing, fs, multi_class, max_workers_arg, entries, chunk_filenames,
                   pool_size, future, seq_idx, collected, outputs, stdout>>
    /\ UNCHANGED crown_vars

Next ==
    \/ StartSequential
    \/ SequentialFile
    \/ SequentialReturn
    \/ StartParallel
    \/ \E k \in 1..MaxFiles : TaskStart(k)
    \/ \E k \in 1..MaxFiles : TaskFile(k)
    \/ Shutdown
    \/ \E k \in 1..MaxFiles : Collect(k)
    \/ Return

Spec == Init /\ [][Next]_vars

\* ------------------------------------------- specification of process_crowns
InitCrowns ==
    /\ SchedIdle
    /\ crowns = <<>>
    /\ cp_multi_class \in BOOLEAN
    /\ cp_confidence \in Thresholds
    /\ cp_shift \in Shifts
    /\ cp_transform \in Transforms
    /\ geofile_features = <<>>
    /\ cp_pc = "loop"

\* one iteration of  for crown_data in crowns  (lines 102-154)
CrownIter(crown_data) ==
    /\ cp_pc = "loop"
    /\ Len(crowns) < MaxCrowns
    /\ LET r == process_crown(crown_data, cp_multi_class, cp_transform, CrownFile,
                              TileExtent, cp_shift, cp_confidence, geofile_features)
       IN /\ geofile_features' = r.features
          /\ cp_pc' = IF r.raised # None THEN "raised" ELSE "loop"
    /\ crowns' = Append(crowns, crown_data)
    /\ UNCHANGED <<cp_multi_class, cp_confidence, cp_shift, cp_transform>>
    /\ UNCHANGED sched_vars

\* line 156: the list is exhausted,  return geofile_features
CrownReturn ==
    /\ cp_pc = "loop"
    /\ cp_pc' = "returned"
    /\ UNCHANGED <<crowns, cp_multi_class, cp_confidence, cp_shift, cp_transform,
                   geofile_features>>
    /\ UNCHANGED sched_vars

NextCrowns ==
    \/ \E crown_data \in CrownData : CrownIter(crown_data)
    \/ CrownReturn

SpecCrowns == InitCrowns /\ [][NextCrowns]_vars

\* ---------------------------------------------------------- properties
\* positions <<b, i>> of chunk_filenames
ChunkSlots == {bi \in (1..Len(chunk_filenames)) \X (1..MaxFiles + 1) :
                  bi[2] <= Len(chunk_filenames[bi[1]])}

PartitionBuilt == pc # "start" /\ max_workers_arg # 1

\* C1: once the round-robin partition is built, every enumerated file sits in
\* exactly one slot of exactly one batch, and every slot holds an enumerated file
C1_PartitionExact ==
    PartitionBuilt =>
        /\ \A i \in 1..Len(entries) :
              Cardinality({bi \in ChunkSlots :
                              chunk_filenames[bi[1]][bi[2]] = entries[i]}) = 1
        /\ \A bi \in ChunkSlots :
              \E i \in 1..Len(entries) : chunk_filenames[bi[1]][bi[2]] = entries[i]

C1_Witness ==
    /\ PartitionBuilt
    /\ Len(entries) = 3
    /\ Len(chunk_filenames) = 2
    /\ Len(chunk_filenames[1]) = 2

\* C2: project_to_geojson always ends by returning, never by raising
C2_AlwaysReturns == pc = "done" => outcome = "returned"

AllOk(files) == \A i \in 1..Len(files) : fs[files[i]] = "ok"

AllWritten(files) == \A i \in 1..Len(files) : OutputGeoFile(files[i]) \in DOMAIN outputs

\* C3: when a parallel run has ended, every file of every batch without a
\* failing file has its output file
C3_SiblingsComplete ==
    (pc = "done" /\ max_workers_arg # 1) =>
        \A b \in 1..Len(chunk_filenames) :
            AllOk(chunk_filenames[b]) => AllWritten(chunk_filenames[b])

\* C4: when a run has ended, every enumerated file that is well-formed and has
\* its companions has its output file, whatever the other files of its batch are
C4_OnlyFailingSkipped ==
    pc = "done" =>
        \A i \in 1..Len(entries) :
            fs[entries[i]] = "ok" => OutputGeoFile(entries[i]) \in DOMAIN outputs

\* C5: with no prediction file the run returns normally, dispatches no batch
\* and writes nothing, for every max_workers
C5_EmptyIsNoOp ==
    (pc = "done" /\ Enumerate(listing) = <<>>) =>
        /\ outcome = "returned"
        /\ future = <<>>
        /\ DOMAIN outputs = {}

\* number of instances of a prediction file with score >= threshold
RECURSIVE CountAtLeast(_, _)
CountAtLeast(cs, threshold) ==
    IF cs = <<>> THEN 0
    ELSE (IF Head(cs).score >= threshold THEN 1 ELSE 0) + CountAtLeast(Tail(cs), threshold)

\* C6: a sequential run over well-formed files with their companions ends with
\* exactly one output file per input file, named by its stem, holding one
\* feature per instance of score >= 5 and the EPSG id of its tile
C6_SequentialEndToEnd ==
    (pc = "done" /\ max_workers_arg = 1 /\ AllOk(entries)) =>
        /\ DOMAIN outputs = {OutputGeoFile(entries[i]) : i \in 1..Len(entries)}
        /\ \A i \in 1..Len(entries) :
              LET out == outputs[OutputGeoFile(entries[i])]
              IN /\ Len(out.features) = CountAtLeast(PredictionContent(entries[i]), 5)
                 /\ out.crs.properties.name =
                       <<"urn:ogc:def:crs:EPSG::",
                         filename_geoinfo(StrReplaceJson(TifName(entries[i])))>>

\* C10: distinct enumerated files have distinct output file names, so the
\* files of two different tasks never share an output file name
C10_DistinctOutputNames ==
    /\ \A i, j \in 1..Len(entries) :
          i # j => OutputGeoFile(entries[i]) # OutputGeoFile(entries[j])
    /\ \A k1, k2 \in 1..Len(future) :
          k1 # k2 =>
             \A i \in 1..Len(future[k1].chunk), j \in 1..Len(future[k2].chunk) :
                OutputGeoFile(future[k1].chunk[i]) # OutputGeoFile(future[k2].chunk[j])

C10_Witness ==
    /\ Cardinality(Running) >= 2
    /\ \E i, j \in 1..Len(entries) :
          /\ entries[i] = <<"Prediction_", "a", ".", "json">>
          /\ entries[j] = <<"Prediction_", "a", ".", "b", ".", "json">>

\* ------------------------------------------ properties of process_crowns
\* a step of the loop: crowns' is crowns with the instance just handled
IterStep == Len(crowns') = Len(crowns) + 1

Handled == crowns'[Len(crowns')]

\* the instance's mask decodes to a ring (lines 114-117)
Decodes(crown_data) == polygon_from_mask(MaskDecode(crown_data.segmentation)).type = "list"

\* the instance's projected ring (lines 119-124)
MovedCoords(crown_data) ==
    TransformXY(cp_transform,
                Reshape2(polygon_from_mask(MaskDecode(crown_data.segmentation)).val))

\* the step appended exactly one feature, carrying the handled instance's score
Emitted ==
    /\ Len(geofile_features') = Len(geofile_features) + 1
    /\ SubSeq(geofile_features', 1, Len(geofile_features)) = geofile_features
    /\ geofile_features'[Len(geofile_features')].properties.Confidence_score = Handled.score

NotEmitted == geofile_features' = geofile_features

\* the instance has what lines 103-107 read
WellFormed(crown_data) == cp_multi_class => crown_data.category_id # None

\* C7: with a threshold T, an instance of score < T produces no feature and an
\* instance of score >= T is not dropped for its score; without a threshold
\* no instance is dropped for its score
C7_ConfidenceFilter ==
    [][IterStep =>
        /\ (cp_confidence # None /\ Handled.score < cp_confidence[1]) => NotEmitted
        /\ (/\ cp_confidence # None => Handled.score >= cp_confidence[1]
            /\ WellFormed(Handled) /\ Decodes(Handled) /\ cp_shift = None) => Emitted]_vars

C7_Witness ==
    /\ cp_confidence = <<5>>
    /\ Len(crowns) = 2
    /\ crowns[1].score = 4
    /\ crowns[2].score = 5
    /\ Len(geofile_features) = 1
    /\ geofile_features[1].properties.Confidence_score = 5

HasCategory(feature) == "category" \in DOMAIN feature.properties

\* C8: the features of a list all carry a category when multi_class is true
\* and none does when it is false, and a feature's category is the
\* category_id of the instance it was built from
C8_CategoryUniform ==
    [][/\ \A k \in 1..Len(geofile_features') :
             HasCategory(geofile_features'[k]) <=> cp_multi_class
       /\ (IterStep /\ Len(geofile_features') > Len(geofile_features) /\ cp_multi_class) =>
             geofile_features'[Len(geofile_features')].properties.category
                = Handled.category_id[1]]_vars

C8_Witness ==
    /\ cp_multi_class
    /\ Len(geofile_features) = 2
    /\ geofile_features[1].properties.category = 1
    /\ geofile_features[2].properties.category = 2

\* every point of the ring lies strictly inside bbox
StrictlyInterior(ring, bbox) ==
    \A k \in 1..Len(ring) :
        /\ bbox.minx < ring[k][1] /\ ring[k][1] < bbox.maxx
        /\ bbox.miny < ring[k][2] /\ ring[k][2] < bbox.maxy

Ring(feature) == feature.geometry.coordinates[1]

\* C11: an instance whose mask decodes to the sentinel 0 produces no feature
\* and raises nothing, the loop goes on, and every feature's ring has at
\* least 3 coordinate pairs
C11_DegenerateSkipped ==
    [][/\ (IterStep /\ WellFormed(Handled) /\ ~Decodes(Handled)) =>
             (NotEmitted /\ cp_pc' = "loop")
       /\ \A k \in 1..Len(geofile_features') : Len(Ring(geofile_features'[k])) >= 3]_vars

C11_Witness ==
    /\ Len(crowns) = 2
    /\ crowns[1].segmentation.counts = <<4>>
    /\ crowns[1].score = 6
    /\ crowns[2].segmentation.counts = <<1, 3>>
    /\ cp_confidence = None
    /\ cp_shift = None
    /\ cp_pc = "loop"
    /\ Len(geofile_features) = 1
    /\ Len(Ring(geofile_features[1])) = 3

\* ------------------------------------------- properties of the scheduler
\* the parallel path was taken and the function has ended
ParallelEnded == pc = "done" /\ max_workers_arg # 1

\* C12: in the parallel path the function is past pool.shutdown only when
\* every submitted task has ended, and at its end every task that did not
\* fail has all its files written
C12_ReturnsAfterAllBatches ==
    /\ (max_workers_arg # 1 /\ pc \in {"collect", "done"}) =>
          \A k \in 1..Len(future) : future[k].state = "finished"
    /\ ParallelEnded =>
          \A k \in 1..Len(future) :
              future[k].exception = None => AllWritten(future[k].chunk)

C12_Witness ==
    /\ ParallelEnded
    /\ outcome = "returned"
    /\ Len(future) = 2
    /\ Len(future[1].chunk) = 2
    /\ \A k \in 1..Len(future) : future[k].state = "finished"

\* effective worker count of the claim: the smaller of max_workers and the
\* number of files
Effective == IF max_workers_arg < Len(entries) THEN max_workers_arg ELSE Len(entries)

\* C13: with N >= 1 files in the parallel path there are E = min(W, N)
\* batches, batch i (0-based) holds the files of indices i, i+E, i+2E, ... in
\* that order, the sizes differ by at most one, and exactly one task is
\* submitted per batch, none for an empty batch
C13_RoundRobinShape ==
    (PartitionBuilt /\ Len(entries) >= 1) =>
        /\ Len(chunk_filenames) = Effective
        /\ \A b \in 1..Len(chunk_filenames) :
              /\ Len(chunk_filenames[b]) =
                    Cardinality({j \in 0..(Len(entries) - 1) : j % Effective = b - 1})
              /\ \A i \in 1..Len(chunk_filenames[b]) :
                    chunk_filenames[b][i] = entries[(b - 1) + (i - 1) * Effective + 1]
        /\ \A b1, b2 \in 1..Len(chunk_filenames) :
              Len(chunk_filenames[b1]) - Len(chunk_filenames[b2]) <= 1
        /\ Len(future) = Effective
        /\ \A k \in 1..Len(future) :
              /\ future[k].chunk = chunk_filenames[k]
              /\ Len(future[k].chunk) > 0

C13_Witness ==
    /\ PartitionBuilt
    /\ max_workers_arg = 2
    /\ Len(entries) = 3
    /\ Len(future) = 2
    /\ future[1].chunk = <<entries[1], entries[3]>>
    /\ future[2].chunk = <<entries[2]>>

\* ----------------------------------- more properties of process_crowns
\* the instances whose iteration has completed without raising
Processed ==
    IF cp_pc = "raised" THEN SubSeq(crowns, 1, Len(crowns) - 1) ELSE crowns

\* the instance survives the confidence, decode and edge filters
Survives(crown_data) ==
    /\ cp_confidence # None => crown_data.score >= cp_confidence[1]
    /\ Decodes(crown_data)
    /\ cp_shift # None =>
          ~PyNot(is_edge_crown(MovedCoords(crown_data), box_filter(TileExtent, cp_shift[1])))

\* C14: the feature list is the subsequence of the surviving instances, in
\* input order: one feature per survivor, with its score and its ring
C14_StableSubsequence ==
    LET survivors == SelectSeq(Processed, Survives)
    IN /\ Len(geofile_features) = Len(survivors)
       /\ \A k \in 1..Len(geofile_features) :
             /\ k <= Len(survivors)
             /\ geofile_features[k].properties.Confidence_score = survivors[k].score
             /\ Ring(geofile_features[k]) = MovedCoords(survivors[k])

C14_Witness ==
    /\ cp_pc = "returned"
    /\ cp_confidence = None
    /\ cp_shift = None
    /\ Len(crowns) = 2
    /\ crowns[1].score = 6
    /\ crowns[2].score = 4
    /\ Len(geofile_features) = 2
    /\ geofile_features[1].properties.Confidence_score = 6
    /\ geofile_features[2].properties.Confidence_score = 4

\* ------------------------------------- more properties of the scheduler
ProgressLines == SelectSeq(stdout, LAMBDA line : line.kind = "progress")

ExceptionLines == SelectSeq(stdout, LAMBDA line : line.kind = "exception")

\* C16: a sequential run over files that are all in order creates no pool and
\* no task, handles every file in enumeration order and leaves its output, and
\* prints a progress line exactly for the positions that are multiples of 50;
\* a parallel run prints no progress line
C16_SequentialInOrder ==
    /\ (pc = "done" /\ max_workers_arg = 1 /\ AllOk(entries)) =>
          /\ pool_size = 0
          /\ future = <<>>
          /\ seq_idx = Len(entries)
          /\ AllWritten(entries)
          /\ Len(ProgressLines) = Len(entries) \div 50
          /\ \A k \in 1..Len(ProgressLines) : ProgressLines[k].idx = 50 * k
    /\ max_workers_arg # 1 => ProgressLines = <<>>

\* the step is an iteration of project_files that raised
FileFailedStep ==
    \/ pc = "sequential" /\ outcome' = "raised"
    \/ \E k \in 1..Len(future) :
          /\ future[k].state = "running"
          /\ future'[k].exception # None

\* C17: an iteration of project_files that fails for its file creates no
\* output file and overwrites none
C17_NoOutputOnFailure == [][FileFailedStep => outputs' = outputs]_vars

C17_Witness ==
    \E k \in 1..Len(future) :
        /\ future[k].exception = <<"RasterioIOError">>
        /\ fs[future[k].chunk[future[k].idx + 1]] = "no_tile"
        /\ OutputGeoFile(future[k].chunk[future[k].idx + 1]) \notin DOMAIN outputs

\* number of instances of a prediction file whose mask decodes to a ring
RECURSIVE CountDecodable(_)
CountDecodable(cs) ==
    IF cs = <<>> THEN 0
    ELSE (IF polygon_from_mask(MaskDecode(Head(cs).segmentation)).type = "list"
          THEN 1 ELSE 0) + CountDecodable(Tail(cs))

\* C18: a run through project_to_geojson applies no confidence and no edge
\* filter: the output of every file in order holds one feature per instance
\* whose mask decodes, whatever its score
C18_NoFilterFromScheduler ==
    (pc = "done" /\ AllOk(entries)) =>
        \A i \in 1..Len(entries) :
            /\ OutputGeoFile(entries[i]) \in DOMAIN outputs
            /\ Len(outputs[OutputGeoFile(entries[i])].features)
                  = CountDecodable(PredictionContent(entries[i]))

Failed == {k \in 1..Len(future) : future[k].exception # None}

\* C19: with N >= 1 files in the parallel path the pool has as many threads
\* as there are tasks, so a queued task never waits for a thread; the failure
\* of a task is printed once, and only when every task has ended
C19_PoolAndReporting ==
    (PartitionBuilt /\ Len(entries) >= 1) =>
        /\ pool_size = Len(future)
        /\ (\E k \in 1..Len(future) : future[k].state = "pending") =>
              Cardinality(Running) < pool_size
        /\ Len(ExceptionLines) = Cardinality(Failed \cap collected)
        /\ ExceptionLines # <<>> =>
              \A k \in 1..Len(future) : future[k].state = "finished"
        /\ pc = "done" => Len(ExceptionLines) = Cardinality(Failed)

C19_Witness ==
    /\ pc = "done"
    /\ max_workers_arg # 1
    /\ Len(future) = 2
    /\ Cardinality(Failed) = 2
    /\ Len(ExceptionLines) = 2

====
